---- MODULE Spec2Model ----
(***************************************************************************)
(* Zabbix inventory manager (src/inventory.py): the CSV cleaning stage,    *)
(* the identifier generator, the hostname allocator, the JSON-RPC client   *)
(* and the run of main().                                                  *)
(*                                                                         *)
(* A Python str is a sequence of one-character strings: "R-1" is           *)
(* <<"R", "-", "1">> and '' is <<>>.  A CSV file is a sequence of rows, a   *)
(* row a sequence of cells (csv.reader / csv.writer round-trip cells       *)
(* unchanged, so the quoting layer is not modelled).                       *)
(***************************************************************************)
EXTENDS Integers, Sequences, FiniteSets, TLC

VARIABLES
    pc,                 \* position of the running program
    raw_csv,            \* the input file 'sending.csv' (rows of cells), or Unreadable
    cleaned_csv,        \* the file 'cleaned_sending.csv' written by clean_csv
    recleaned_csv,      \* the file written by a second clean_csv pass over cleaned_csv
    inventory_data,     \* DataFrame returned by read_inventory_csv (rows of 8 fields)
    reread_data,        \* DataFrame read from recleaned_csv
    auth_token,         \* ZabbixInventoryManager.auth_token
    counter,            \* ZabbixInventoryManager.counter
    hostname_counters,  \* ZabbixInventoryManager.hostname_counters (dict as a function)
    processed,          \* number of rows of inventory_data the loop of main has handled
    success_count,      \* main: success_count
    failed_count,       \* main: failed_count
    total_count,        \* main: total_count
    requests,           \* every JSON-RPC request sent so far, in order
    exchange,           \* what the last create_or_update_host call received and returned
    trace               \* the calls made on the manager object, with their results

vars == <<pc, raw_csv, cleaned_csv, recleaned_csv, inventory_data, reread_data,
          auth_token, counter, hostname_counters, processed, success_count,
          failed_count, total_count, requests, exchange, trace>>

----------------------------------------------------------------------------
(* Bounds of the model *)

\* longest input file of a run of main: data rows after the header
MaxRows == 3
\* number of calls made on one manager object
MaxCalls == 5
\* data rows after the header of a file given to the cleaning stage alone
MaxFileRows == 2

----------------------------------------------------------------------------
(* Python str and int operations used by the code *)

\* characters for which str.isspace() holds (those that occur in the model)
Whitespace == {" ", "\t"}

Digits == {"0", "1", "2", "3", "4", "5", "6", "7", "8", "9"}

Letters == {"A", "B", "C", "D", "E", "F", "G", "H", "I", "J", "K", "L", "M",
            "N", "O", "P", "Q", "R", "S", "T", "U", "V", "W", "X", "Y", "Z",
            "a", "b", "c", "d", "e", "f", "g", "h", "i", "j", "k", "l", "m",
            "n", "o", "p", "q", "r", "s", "t", "u", "v", "w", "x", "y", "z"}

\* c.isalnum()
isalnum(c) == c \in Letters \cup Digits

\* s.lstrip()
RECURSIVE lstrip(_)
lstrip(s) ==
    IF s = <<>> THEN <<>>
    ELSE IF Head(s) \in Whitespace THEN lstrip(Tail(s)) ELSE s

\* s.rstrip()
RECURSIVE rstrip(_)
rstrip(s) ==
    IF s = <<>> THEN <<>>
    ELSE IF s[Len(s)] \in Whitespace THEN rstrip(SubSeq(s, 1, Len(s) - 1)) ELSE s

\* s.strip()
strip(s) == rstrip(lstrip(s))

\* s.split(): the maximal runs of non-whitespace characters, in order
RECURSIVE split(_, _)
split(s, word) ==
    IF s = <<>> THEN (IF word = <<>> THEN <<>> ELSE <<word>>)
    ELSE IF Head(s) \in Whitespace
         THEN (IF word = <<>> THEN <<>> ELSE <<word>>) \o split(Tail(s), <<>>)
         ELSE split(Tail(s), Append(word, Head(s)))

\* ' '.join(words)
RECURSIVE join(_)
join(words) ==
    IF words = <<>> THEN <<>>
    ELSE IF Len(words) = 1 THEN words[1]
    ELSE words[1] \o <<" ">> \o join(Tail(words))

\* Last4 with a bug: the last 4 alphanumeric characters
Last4_alnum(s) ==
    LET t == SelectSeq(s, LAMBDA c : c \in Letters \cup Digits)
    IN  SubSeq(t, IF Len(t) > 4 THEN Len(t) - 3 ELSE 1, Len(t))

\* s[-4:]
Last4(s) == SubSeq(s, IF Len(s) > 4 THEN Len(s) - 3 ELSE 1, Len(s))

\* s.replace(' ', '-')
replace_space(s) == [i \in 1..Len(s) |-> IF s[i] = " " THEN "-" ELSE s[i]]

\* ''.join(c for c in s if c.isalnum() or c in '-_.')
valid_chars(s) == SelectSeq(s, LAMBDA c : isalnum(c) \/ c \in {"-", "_", "."})

DigitChar == <<"0", "1", "2", "3", "4", "5", "6", "7", "8", "9">>

\* str(n) for an int n >= 0
RECURSIVE str(_)
str(n) ==
    IF n < 10 THEN <<DigitChar[n + 1]>>
    ELSE str(n \div 10) \o <<DigitChar[(n % 10) + 1]>>

\* s.zfill(width)
RECURSIVE zfill(_, _)
zfill(s, width) == IF Len(s) >= width THEN s ELSE zfill(<<"0">> \o s, width)

\* the literal 'UNKNOWN'
UNKNOWN == <<"U", "N", "K", "N", "O", "W", "N">>

\* Python None where a str (token, group id) is expected
PyNone == "<None>"

\* truth value of a token or group id: None and '' are false
Truthy(v) == v # PyNone /\ v # ""

----------------------------------------------------------------------------
(* ZabbixInventoryManager.generate_identifier: the result and the counter   *)
(* after the call                                                          *)

\* generate_identifier with a bug: the MAC is tried before the serial number
generate_identifier_mac_first(serial_number, mac_address, cnt) ==
    IF mac_address # <<>> /\ mac_address # UNKNOWN
    THEN [ret |-> <<"M", "C">> \o Last4(strip(mac_address)), counter |-> cnt]
    ELSE IF serial_number # <<>> /\ serial_number # UNKNOWN
    THEN [ret |-> <<"S", "N">> \o Last4(strip(serial_number)), counter |-> cnt]
    ELSE [ret |-> <<"D", "E", "V">> \o zfill(str(cnt), 4), counter |-> cnt + 1]

\* generate_identifier with a bug: the counter is incremented by every call
generate_identifier_always_counts(serial_number, mac_address, cnt) ==
    IF serial_number # <<>> /\ serial_number # UNKNOWN
    THEN [ret |-> <<"S", "N">> \o Last4(strip(serial_number)), counter |-> cnt + 1]
    ELSE IF mac_address # <<>> /\ mac_address # UNKNOWN
    THEN [ret |-> <<"M", "C">> \o Last4(strip(mac_address)), counter |-> cnt + 1]
    ELSE [ret |-> <<"D", "E", "V">> \o zfill(str(cnt), 4), counter |-> cnt + 1]

generate_identifier(serial_number, mac_address, cnt) ==
    IF serial_number # <<>> /\ serial_number # UNKNOWN
    THEN [ret |-> <<"S", "N">> \o Last4(strip(serial_number)), counter |-> cnt]
    ELSE IF mac_address # <<>> /\ mac_address # UNKNOWN
    THEN [ret |-> <<"M", "C">> \o Last4(strip(mac_address)), counter |-> cnt]
    ELSE [ret |-> <<"D", "E", "V">> \o zfill(str(cnt), 4), counter |-> cnt + 1]

(* ZabbixInventoryManager.generate_unique_hostname: the result and the      *)
(* registry after the call                                                 *)

\* generate_unique_hostname with a bug: the count is read after the increment
generate_unique_hostname_late_read(base_hostname, counters) ==
    IF base_hostname \notin DOMAIN counters
    THEN [ret |-> base_hostname,
          counters |-> [b \in DOMAIN counters \cup {base_hostname} |->
                          IF b = base_hostname THEN 1 ELSE counters[b]]]
    ELSE [ret |-> base_hostname \o <<"-">> \o str(counters[base_hostname] + 1),
          counters |-> [counters EXCEPT ![base_hostname] = @ + 1]]

generate_unique_hostname(base_hostname, counters) ==
    IF base_hostname \notin DOMAIN counters
    THEN [ret |-> base_hostname,
          counters |-> [b \in DOMAIN counters \cup {base_hostname} |->
                          IF b = base_hostname THEN 1 ELSE counters[b]]]
    ELSE [ret |-> base_hostname \o <<"-">> \o str(counters[base_hostname]),
          counters |-> [counters EXCEPT ![base_hostname] = @ + 1]]

\* create_or_update_host, lines 245-247: the base hostname of a record
base_hostname_of(device_model, identifier) ==
    valid_chars(replace_space(device_model) \o <<"-">> \o identifier)

----------------------------------------------------------------------------
(* The cleaning stage: clean_csv and read_inventory_csv                     *)

\* number of columns kept: row[:8], usecols=range(8)
NumCols == 8

\* an input file that open() cannot read
Unreadable == <<<<<<"<unreadable>">>>>>>

\* no file on disk
NoFile == <<<<<<"<no file>">>>>>>

\* a missing value of a DataFrame cell (None / NaN); no str equals it
NaN == <<"<NaN>">>

\* a function that returned None where a DataFrame is expected
NoneDf == [ok |-> FALSE, columns |-> <<>>, rows |-> <<>>]

Max(a, b) == IF a >= b THEN a ELSE b

RECURSIVE MaxLen(_)
MaxLen(rows) == IF rows = <<>> THEN 0 ELSE Max(Len(rows[1]), MaxLen(Tail(rows)))

\* any(cell.strip() for cell in row)
any_cell(row) == \E i \in 1..Len(row) : strip(row[i]) # <<>>

\* [cell.strip() for cell in row][:8]
cleaned_row(row) ==
    LET stripped == [i \in 1..Len(row) |-> strip(row[i])]
    IN  SubSeq(stripped, 1, IF Len(row) > NumCols THEN NumCols ELSE Len(row))

\* the loop of clean_csv over csv.reader(file): blank rows filtered out,
\* the others stripped and cut to 8 cells
RECURSIVE cleaned_rows(_)
cleaned_rows(file) ==
    IF file = <<>> THEN <<>>
    ELSE IF any_cell(file[1])
         THEN <<cleaned_row(file[1])>> \o cleaned_rows(Tail(file))
         ELSE cleaned_rows(Tail(file))

\* x.str.strip() on a column of dtype object: a missing value stays missing
str_strip(cell) == IF cell = NaN THEN NaN ELSE strip(cell)

\* clean_csv(input_file, output_file): the DataFrame it returns, NoneDf when
\* an exception is caught.  pd.DataFrame(rows, columns=header) pads short rows
\* with None and raises when the widest row and the header differ in length.
clean_csv(file) ==
    IF file = Unreadable \/ file = NoFile THEN NoneDf
    ELSE LET all == cleaned_rows(file) IN
         IF all = <<>> THEN NoneDf
         ELSE LET header == SubSeq(all[1], 1,
                                   IF Len(all[1]) > NumCols THEN NumCols ELSE Len(all[1]))
                  data == Tail(all)
              IN  IF data # <<>> /\ MaxLen(data) # Len(header) THEN NoneDf
                  ELSE LET padded == [r \in 1..Len(data) |->
                                        [c \in 1..Len(header) |->
                                           IF c <= Len(data[r])
                                           THEN str_strip(data[r][c]) ELSE NaN]]
                           kept == SelectSeq(padded,
                                      LAMBDA row : \E c \in 1..Len(row) : row[c] # NaN)
                       IN  [ok |-> TRUE, columns |-> header, rows |-> kept]

\* df.to_csv(output_file, index=False): the header line, then one line per
\* row, a missing value written as the empty string
to_csv(df) ==
    <<df.columns>> \o
    [r \in 1..Len(df.rows) |->
        [c \in 1..Len(df.rows[r]) |->
            IF df.rows[r][c] = NaN THEN <<>> ELSE df.rows[r][c]]]

\* strings pd.read_csv takes for a missing value (those that occur in the model)
na_values == {<<>>, <<"N", "A">>, <<"N", "/", "A">>, <<"n", "a", "n">>,
              <<"N", "a", "N">>, <<"n", "u", "l", "l">>, <<"N", "U", "L", "L">>}

\* clean_value of read_inventory_csv
clean_value(value) == IF value = NaN THEN <<>> ELSE join(split(value, <<>>))

\* lambda x: x if x else default
or_default(x, default) == IF x # <<>> THEN x ELSE default

Unknown_Device == <<"U", "n", "k", "n", "o", "w", "n", " ", "D", "e", "v", "i", "c", "e">>
Unassigned == <<"U", "n", "a", "s", "s", "i", "g", "n", "e", "d">>
Inventory == <<"I", "n", "v", "e", "n", "t", "o", "r", "y">>
Unknown == <<"U", "n", "k", "n", "o", "w", "n">>

\* positions of the columns 'Sl.no', 'Team', 'Device model', 'S/N', 'MAC ID',
\* 'Condition', 'Assigned to', 'Owner' (line 130)
COL_SLNO == 1
COL_TEAM == 2
COL_MODEL == 3
COL_SN == 4
COL_MAC == 5
COL_CONDITION == 6
COL_ASSIGNED == 7
COL_OWNER == 8

\* default_of with a bug: no default for 'Owner'
default_of_no_owner(col) ==
    CASE col = COL_MODEL -> Unknown_Device
      [] col = COL_SN -> UNKNOWN
      [] col = COL_MAC -> UNKNOWN
      [] col = COL_TEAM -> Inventory
      [] col = COL_CONDITION -> Unknown
      [] col = COL_ASSIGNED -> Unassigned
      [] OTHER -> <<>>

\* the default of a column; '' where the code sets none
default_of(col) ==
    CASE col = COL_MODEL -> Unknown_Device
      [] col = COL_SN -> UNKNOWN
      [] col = COL_MAC -> UNKNOWN
      [] col = COL_OWNER -> Unassigned
      [] col = COL_TEAM -> Inventory
      [] col = COL_CONDITION -> Unknown
      [] col = COL_ASSIGNED -> Unassigned
      [] OTHER -> <<>>

\* one field of column col as read_inventory_csv leaves it: read (an NA
\* string is NaN), cleaned, then defaulted
read_cell(cell, col) ==
    or_default(clean_value(IF cell \in na_values THEN NaN ELSE cell), default_of(col))

\* one row of the file as read_inventory_csv leaves it: its first 8 fields, a
\* field the line does not have read as NaN
read_row(line) ==
    [c \in 1..NumCols |-> read_cell(IF c > Len(line) THEN NaN ELSE line[c], c)]

\* read_inventory_csv(file_path): the DataFrame it returns, NoneDf when an
\* exception is caught (no file, no header line, fewer than 8 columns, a line
\* with more fields than the header)
read_inventory_csv(file) ==
    IF file = NoFile \/ file = Unreadable \/ file = <<>> THEN NoneDf
    ELSE IF Len(file[1]) < NumCols THEN NoneDf
    ELSE IF \E r \in 2..Len(file) : Len(file[r]) > Len(file[1]) THEN NoneDf
    ELSE LET rows == [r \in 1..(Len(file) - 1) |-> read_row(file[r + 1])]
             kept == SelectSeq(rows,
                        LAMBDA row : \E c \in 1..NumCols : strip(row[c]) # <<>>)
         IN  [ok |-> TRUE,
              columns |-> <<COL_SLNO, COL_TEAM, COL_MODEL, COL_SN, COL_MAC,
                            COL_CONDITION, COL_ASSIGNED, COL_OWNER>>,
              rows |-> kept]

----------------------------------------------------------------------------
(* The JSON-RPC client.  A response is what requests.post gave back:        *)
(* status "exception" when the call raised (transport failure), else the   *)
(* HTTP status; has_result says whether the JSON body has a 'result' field *)
(* and result is that field.                                               *)

Response(status, has_result, result) ==
    [status |-> status, has_result |-> has_result, result |-> result]

\* no request was sent
NotSent == Response("not sent", FALSE, <<>>)

\* an entry of the result list of hostgroup.get; has_groupid is FALSE when the
\* entry has no 'groupid' key
GroupEntry(has_groupid, groupid) == [has_groupid |-> has_groupid, groupid |-> groupid]

LoginResponses ==
    { Response("exception", FALSE, ""), Response("500", FALSE, ""),
      Response("200", FALSE, ""), Response("200", TRUE, "token") }

GetResponses ==
    { Response("exception", FALSE, <<>>), Response("500", FALSE, <<>>),
      Response("200", FALSE, <<>>), Response("200", TRUE, <<>>),
      Response("200", TRUE, <<GroupEntry(TRUE, "7")>>),
      Response("200", TRUE, <<GroupEntry(TRUE, "")>>),
      Response("200", TRUE, <<GroupEntry(FALSE, "")>>) }

CreateResponses ==
    { Response("exception", FALSE, <<>>), Response("500", FALSE, <<>>),
      Response("200", FALSE, <<>>), Response("200", TRUE, <<"8">>),
      Response("200", TRUE, <<>>) }

HostResponses ==
    { Response("exception", FALSE, <<>>), Response("500", FALSE, <<>>),
      Response("200", FALSE, <<>>), Response("200", TRUE, <<"10">>) }

\* what the server answers to the calls of one create_or_update_host: a
\* response to hostgroup.get, to hostgroup.create and to host.create, NotSent
\* for a request the code does not send after the responses before it
Answers ==
    { a \in GetResponses \X (CreateResponses \cup {NotSent}) \X (HostResponses \cup {NotSent}) :
        LET asks_create == a[1].status = "200" /\ ~(a[1].has_result /\ a[1].result # <<>>)
            has_id == IF asks_create
                      THEN a[2].status = "200" /\ a[2].has_result /\ a[2].result # <<>>
                      ELSE /\ a[1].status = "200"
                           /\ a[1].result[1].has_groupid
                           /\ a[1].result[1].groupid # ""
        IN  /\ (a[2] = NotSent) <=> ~asks_create
            /\ (a[3] = NotSent) <=> ~has_id }

\* a request as recorded in `requests`: the method, its name parameter and the
\* row of inventory_data it was sent for (0: none)
Request(method, name, row) == [method |-> method, name |-> name, row |-> row]

\* get_zabbix_token: the token, None on any failure
get_zabbix_token(response) ==
    IF response.status = "exception" THEN PyNone
    ELSE IF response.status = "200" /\ response.has_result THEN response.result
    ELSE PyNone

\* create_group: the new group id, None on any failure; result['groupids'][0]
\* raises on an empty list and the exception is caught
create_group(response) ==
    IF response.status = "exception" THEN PyNone
    ELSE IF response.status = "200" /\ response.has_result
         THEN (IF response.result = <<>> THEN PyNone ELSE response.result[1])
    ELSE PyNone

\* get_group_id: the group id and the response to hostgroup.create it consumed
\* (NotSent when create_group was not called).  result.get('result') is false
\* for a missing field and for an empty list alike.
get_group_id(response, create_response) ==
    IF response.status = "exception" THEN [ret |-> PyNone, create |-> NotSent]
    ELSE IF response.status = "200"
         THEN IF response.has_result /\ response.result # <<>>
              THEN [ret |-> IF response.result[1].has_groupid
                            THEN response.result[1].groupid ELSE PyNone,
                    create |-> NotSent]
              ELSE [ret |-> create_group(create_response), create |-> create_response]
    ELSE [ret |-> PyNone, create |-> NotSent]

\* host_created with a bug: any response of status 200 counts
host_created_any_200(response) ==
    IF response.status = "exception" THEN FALSE
    ELSE response.status = "200"

\* the part of create_or_update_host after the group id is known: the return
\* value for a response to host.create
host_created(response) ==
    IF response.status = "exception" THEN FALSE
    ELSE response.status = "200" /\ response.has_result

\* create_or_update_host(host_data) for row number `row`, given the responses
\* the three remote calls would get: the return value, the manager's fields
\* after the call, the requests sent in order and the responses consumed
create_or_update_host(host_data, row, cnt, counters, get_response, create_response, host_response) ==
    LET id == generate_identifier(host_data[COL_SN], host_data[COL_MAC], cnt)
        base == base_hostname_of(host_data[COL_MODEL], id.ret)
        alloc == generate_unique_hostname(base, counters)
        team == strip(host_data[COL_TEAM])
        group == get_group_id(get_response, create_response)
        group_requests ==
            <<Request("hostgroup.get", team, row)>> \o
            (IF group.create = NotSent THEN <<>>
             ELSE <<Request("hostgroup.create", team, row)>>)
    IN  IF ~Truthy(group.ret)
        THEN [ret |-> FALSE, counter |-> id.counter, hostname_counters |-> alloc.counters,
              sent |-> group_requests,
              exchange |-> [row |-> row, identifier |-> id.ret, base_hostname |-> base,
                            hostname |-> alloc.ret, group_id |-> group.ret,
                            get |-> get_response, create |-> group.create,
                            host |-> NotSent, ret |-> FALSE]]
        ELSE [ret |-> host_created(host_response), counter |-> id.counter,
              hostname_counters |-> alloc.counters,
              sent |-> group_requests \o <<Request("host.create", alloc.ret, row)>>,
              exchange |-> [row |-> row, identifier |-> id.ret, base_hostname |-> base,
                            hostname |-> alloc.ret, group_id |-> group.ret,
                            get |-> get_response, create |-> group.create,
                            host |-> host_response, ret |-> host_created(host_response)]]

\* before any call of create_or_update_host
NoExchange ==
    [row |-> 0, identifier |-> <<>>, base_hostname |-> <<>>, hostname |-> <<>>,
     group_id |-> PyNone, get |-> NotSent, create |-> NotSent, host |-> NotSent,
     ret |-> FALSE]

\* the empty dict
EmptyDict == [b \in {} |-> 0]

\* before any call on the manager object
NoTrace ==
    [calls |-> 0, op |-> "none", serial |-> <<>>, mac |-> <<>>, base |-> <<>>,
     ret |-> <<>>, counter_before |-> 1, counters_before |-> EmptyDict,
     asked |-> EmptyDict, fallbacks |-> 0, dev_ids |-> {}]

----------------------------------------------------------------------------
(* The run of main()                                                       *)

\* a header line of 8 column names
Header == << <<"n", "o">>, <<"t", "e", "a", "m">>, <<"m", "o", "d", "e", "l">>,
             <<"s", "n">>, <<"m", "a", "c">>, <<"c", "o", "n", "d">>,
             <<"t", "o">>, <<"o", "w", "n", "e", "r">> >>

\* a header line of 2 column names
ShortHeader == << <<"n", "o">>, <<"t", "e", "a", "m">> >>

\* device R, serial number 1
RowSerial1 == << <<"1">>, <<"N", "e", "t">>, <<"R">>, <<"1">>, <<>>, <<"o", "k">>,
                 <<"b", "o", "b">>, <<"a", "l">> >>

\* device R, serial number 1-1, the other cells blank
RowSerial1_1 == << <<"2">>, <<" ">>, <<" ", "R">>, <<"1", "-", "1">>, <<>>, <<>>,
                   <<>>, <<>> >>

\* the first 8 cells blank, a 9th cell not
RowBlank8 == << <<>>, <<>>, <<>>, <<>>, <<>>, <<>>, <<>>, <<>>, <<"x">> >>

\* 8 whitespace-only cells
RowAllBlank == [c \in 1..NumCols |-> <<" ">>]

\* a line of 2 cells
ShortRow == << <<"1">>, <<"N", "e", "t">> >>

RowPool == {RowSerial1, RowSerial1_1}

RECURSIVE SeqsUpTo(_, _)
SeqsUpTo(S, n) ==
    IF n = 0 THEN {<<>>}
    ELSE LET shorter == SeqsUpTo(S, n - 1)
         IN  shorter \cup {Append(q, x) : q \in shorter, x \in S}

\* the input files of a run: a header and up to MaxRows lines of RowPool,
\* files with devices that have neither serial number nor MAC, and the files
\* the cleaning stage or the reading stage rejects
RunInputs ==
    { <<Header>> \o body : body \in SeqsUpTo(RowPool, MaxRows) }
    \cup { <<Header, RowBlank8>>, <<Header, RowBlank8, RowSerial1, RowBlank8>>,
           <<Header, RowAllBlank, RowSerial1>> }
    \cup { Unreadable, <<>>, <<ShortHeader, RowSerial1>>, <<ShortHeader, ShortRow>> }

RunInit ==
    /\ pc = "clean"
    /\ raw_csv \in RunInputs
    /\ cleaned_csv = NoFile
    /\ recleaned_csv = NoFile
    /\ inventory_data = NoneDf
    /\ reread_data = NoneDf
    /\ auth_token = PyNone
    /\ counter = 1
    /\ hostname_counters = EmptyDict
    /\ processed = 0
    /\ success_count = 0
    /\ failed_count = 0
    /\ total_count = 0
    /\ requests = <<>>
    /\ exchange = NoExchange
    /\ trace = NoTrace

\* main, lines 350-354: clean the input; return when clean_csv returns None
CleanCsv ==
    /\ pc = "clean"
    /\ LET df == clean_csv(raw_csv)
       IN  IF df.ok
           THEN cleaned_csv' = to_csv(df) /\ pc' = "manager"
           ELSE cleaned_csv' = cleaned_csv /\ pc' = "done"
    /\ UNCHANGED <<raw_csv, recleaned_csv, inventory_data, reread_data, auth_token,
                   counter, hostname_counters, processed, success_count, failed_count,
                   total_count, requests, exchange, trace>>

\* main, lines 357-361: ZabbixInventoryManager() logs in; return without a token
NewManager ==
    /\ pc = "manager"
    /\ \E response \in LoginResponses :
          /\ auth_token' = get_zabbix_token(response)
          /\ pc' = IF Truthy(get_zabbix_token(response)) THEN "read" ELSE "done"
    /\ counter' = 1
    /\ hostname_counters' = EmptyDict
    /\ requests' = Append(requests, Request("user.login", <<>>, 0))
    /\ UNCHANGED <<raw_csv, cleaned_csv, recleaned_csv, inventory_data, reread_data,
                   processed, success_count, failed_count, total_count, exchange, trace>>

\* main, lines 364-371: read the cleaned file; return when it cannot be read.
\* With no row to iterate over, the loop and lines 380-386 (the summary, the
\* removal of the cleaned file) follow at once.
ReadInventoryCsv ==
    /\ pc = "read"
    /\ LET df == read_inventory_csv(cleaned_csv)
       IN  /\ inventory_data' = df
           /\ IF df.ok
              THEN /\ pc' = IF Len(df.rows) = 0 THEN "done" ELSE "loop"
                   /\ cleaned_csv' = IF Len(df.rows) = 0 THEN NoFile ELSE cleaned_csv
                   /\ success_count' = 0
                   /\ failed_count' = 0
                   /\ total_count' = Len(df.rows)
              ELSE /\ pc' = "done"
                   /\ UNCHANGED <<cleaned_csv, success_count, failed_count, total_count>>
    /\ UNCHANGED <<raw_csv, recleaned_csv, reread_data, auth_token, counter,
                   hostname_counters, processed, requests, exchange, trace>>

\* tally with a bug: a failure is not counted
tally_drops_failure(ret, success, failed) ==
    IF ret THEN [success |-> success + 1, failed |-> failed]
    ELSE [success |-> success, failed |-> failed]

\* main, lines 375-378: the counts after create_or_update_host returned ret
tally(ret, success, failed) ==
    IF ret THEN [success |-> success + 1, failed |-> failed]
    ELSE [success |-> success, failed |-> failed + 1]

\* main, lines 374-386: one iteration of the loop over inventory_data; after
\* the last row the summary is logged and the cleaned file removed
ProcessRow ==
    /\ pc = "loop"
    /\ processed < Len(inventory_data.rows)
    /\ \E answers \in Answers :
          LET get_response == answers[1]
              create_response == answers[2]
              host_response == answers[3]
              r == create_or_update_host(inventory_data.rows[processed + 1],
                                         processed + 1, counter, hostname_counters,
                                         get_response, create_response, host_response)
          IN  /\ counter' = r.counter
              /\ hostname_counters' = r.hostname_counters
              /\ requests' = requests \o r.sent
              /\ exchange' = r.exchange
              /\ success_count' = tally(r.ret, success_count, failed_count).success
              /\ failed_count' = tally(r.ret, success_count, failed_count).failed
    /\ processed' = processed + 1
    /\ IF processed + 1 = Len(inventory_data.rows)
       THEN pc' = "done" /\ cleaned_csv' = NoFile
       ELSE pc' = "loop" /\ cleaned_csv' = cleaned_csv
    /\ UNCHANGED <<raw_csv, recleaned_csv, inventory_data, reread_data,
                   auth_token, total_count, trace>>

Next == CleanCsv \/ NewManager \/ ReadInventoryCsv \/ ProcessRow

Spec == RunInit /\ [][Next]_vars

----------------------------------------------------------------------------
(* The manager object on its own: any sequence of calls of                  *)
(* generate_identifier and generate_unique_hostname, with the arguments    *)
(* create_or_update_host can pass (fields read_inventory_csv produced)     *)

\* cells of the S/N column, before cleaning
RawSerialCells ==
    { <<>>, <<" ">>, <<"1">>, <<"1", "-", "1">>, <<"A", "B", "1", "2">>,
      <<" ", "A", "B", "C", "1", "2", "3", "4", "5", " ">>, <<"A", " ", " ", "B", "\t", "C">>,
      <<"N", "A">> }

\* cells of the MAC ID column, before cleaning
RawMacCells ==
    { <<>>, <<"a", "b">>,
      <<"A", "A", ":", "B", "B", ":", "C", "C", ":", "D", "D", ":", "E", "E", ":", "F", "F">> }

\* cells of the Device model column, before cleaning
RawModelCells == { <<>>, <<"R">> }

SerialValues == { read_cell(c, COL_SN) : c \in RawSerialCells }

MacValues == { read_cell(c, COL_MAC) : c \in RawMacCells }

\* base hostnames of records: of devices with the serial numbers 1 and 1-1
\* and of devices with neither serial number nor MAC
BaseValues ==
    { base_hostname_of(read_cell(m, COL_MODEL), generate_identifier(sn, UNKNOWN, 1).ret) :
        m \in RawModelCells, sn \in { <<"1">>, <<"1", "-", "1">>, UNKNOWN } }

\* neither a usable serial number nor a usable MAC
Lacking(value) == value = <<>> \/ value = UNKNOWN

ManagerInit ==
    /\ pc = "manager object"
    /\ raw_csv = NoFile
    /\ cleaned_csv = NoFile
    /\ recleaned_csv = NoFile
    /\ inventory_data = NoneDf
    /\ reread_data = NoneDf
    /\ auth_token = "token"
    /\ counter = 1
    /\ hostname_counters = EmptyDict
    /\ processed = 0
    /\ success_count = 0
    /\ failed_count = 0
    /\ total_count = 0
    /\ requests = <<>>
    /\ exchange = NoExchange
    /\ trace = NoTrace

\* a call manager.generate_identifier(serial, mac)
CallGenerateIdentifier ==
    /\ pc = "manager object"
    /\ trace.calls < MaxCalls
    /\ \E serial \in SerialValues, mac \in MacValues :
          LET r == generate_identifier(serial, mac, counter)
              fallback == Lacking(serial) /\ Lacking(mac)
          IN  /\ counter' = r.counter
              /\ trace' = [trace EXCEPT
                     !.calls = @ + 1, !.op = "generate_identifier",
                     !.serial = serial, !.mac = mac, !.base = <<>>, !.ret = r.ret,
                     !.counter_before = counter, !.counters_before = hostname_counters,
                     !.fallbacks = IF fallback THEN @ + 1 ELSE @,
                     !.dev_ids = IF fallback THEN @ \cup {r.ret} ELSE @]
    /\ UNCHANGED <<pc, raw_csv, cleaned_csv, recleaned_csv, inventory_data, reread_data,
                   auth_token, hostname_counters, processed, success_count, failed_count,
                   total_count, requests, exchange>>

\* a call manager.generate_unique_hostname(base)
CallGenerateUniqueHostname ==
    /\ pc = "manager object"
    /\ trace.calls < MaxCalls
    /\ \E base \in BaseValues :
          LET r == generate_unique_hostname(base, hostname_counters)
          IN  /\ hostname_counters' = r.counters
              /\ trace' = [trace EXCEPT
                     !.calls = @ + 1, !.op = "generate_unique_hostname",
                     !.serial = <<>>, !.mac = <<>>, !.base = base, !.ret = r.ret,
                     !.counter_before = counter, !.counters_before = hostname_counters,
                     !.asked = [b \in DOMAIN @ \cup {base} |->
                                  IF b = base
                                  THEN (IF b \in DOMAIN @ THEN @[b] + 1 ELSE 1)
                                  ELSE @[b]]]
    /\ UNCHANGED <<pc, raw_csv, cleaned_csv, recleaned_csv, inventory_data, reread_data,
                   auth_token, counter, processed, success_count, failed_count,
                   total_count, requests, exchange>>

ManagerNext == CallGenerateIdentifier \/ CallGenerateUniqueHostname

ManagerSpec == ManagerInit /\ [][ManagerNext]_vars

----------------------------------------------------------------------------
(* The cleaning stage on its own: clean_csv on an input file, then          *)
(* read_inventory_csv on its output, then the same two on that output      *)

\* a data line with every cell filled in; some cells padded with whitespace
\* or with runs of whitespace inside, one an NA string of pd.read_csv
FullRow == << <<"7">>, <<" ", "N", "e", "t", " ">>, <<"R", " ", " ", "2">>,
              <<"A", "B", "C", "1", "2", "3", "4", "5">>, <<"a", "b">>,
              <<"N", "A">>, <<"b", "o", "b", "\t">>, <<"a", "l">> >>

\* empty and whitespace-only cells
BlankCells == { <<>>, <<" ", "\t">> }

\* FullRow with the cells of `blanks` replaced by `blank`, and `extra` appended
BlankedRow(blanks, blank, extra) ==
    [c \in 1..NumCols |-> IF c \in blanks THEN blank ELSE FullRow[c]] \o extra

\* every subset of the 8 cells blank, with and without a 9th cell
BlankedRows ==
    { BlankedRow(blanks, blank, extra) :
        blanks \in SUBSET (1..NumCols), blank \in BlankCells,
        extra \in {<<>>, << <<"x">> >>} }

CleanPool == {Header, ShortHeader, RowBlank8, RowAllBlank, RowSerial1, ShortRow}

\* the input files of the cleaning stage
CleanInputs ==
    { <<Header, row>> : row \in BlankedRows }
    \cup SeqsUpTo(CleanPool, MaxFileRows + 1)
    \cup { Unreadable }

CleanInit ==
    /\ pc = "first pass"
    /\ raw_csv \in CleanInputs
    /\ cleaned_csv = NoFile
    /\ recleaned_csv = NoFile
    /\ inventory_data = NoneDf
    /\ reread_data = NoneDf
    /\ auth_token = PyNone
    /\ counter = 1
    /\ hostname_counters = EmptyDict
    /\ processed = 0
    /\ success_count = 0
    /\ failed_count = 0
    /\ total_count = 0
    /\ requests = <<>>
    /\ exchange = NoExchange
    /\ trace = NoTrace

\* clean_csv('sending.csv', 'cleaned_sending.csv')
FirstPass ==
    /\ pc = "first pass"
    /\ LET df == clean_csv(raw_csv)
       IN  IF df.ok
           THEN cleaned_csv' = to_csv(df) /\ pc' = "read"
           ELSE cleaned_csv' = cleaned_csv /\ pc' = "rejected"
    /\ UNCHANGED <<raw_csv, recleaned_csv, inventory_data, reread_data, auth_token,
                   counter, hostname_counters, processed, success_count, failed_count,
                   total_count, requests, exchange, trace>>

\* read_inventory_csv('cleaned_sending.csv')
ReadCleaned ==
    /\ pc = "read"
    /\ inventory_data' = read_inventory_csv(cleaned_csv)
    /\ pc' = "second pass"
    /\ UNCHANGED <<raw_csv, cleaned_csv, recleaned_csv, reread_data, auth_token,
                   counter, hostname_counters, processed, success_count, failed_count,
                   total_count, requests, exchange, trace>>

\* clean_csv on the cleaned file
SecondPass ==
    /\ pc = "second pass"
    /\ LET df == clean_csv(cleaned_csv)
       IN  IF df.ok
           THEN recleaned_csv' = to_csv(df) /\ pc' = "read again"
           ELSE recleaned_csv' = recleaned_csv /\ pc' = "rejected again"
    /\ UNCHANGED <<raw_csv, cleaned_csv, inventory_data, reread_data, auth_token,
                   counter, hostname_counters, processed, success_count, failed_count,
                   total_count, requests, exchange, trace>>

\* read_inventory_csv on the re-cleaned file
ReadRecleaned ==
    /\ pc = "read again"
    /\ reread_data' = read_inventory_csv(recleaned_csv)
    /\ pc' = "cleaned twice"
    /\ UNCHANGED <<raw_csv, cleaned_csv, recleaned_csv, inventory_data, auth_token,
                   counter, hostname_counters, processed, success_count, failed_count,
                   total_count, requests, exchange, trace>>

CleanNext == FirstPass \/ ReadCleaned \/ SecondPass \/ ReadRecleaned

CleanSpec == CleanInit /\ [][CleanNext]_vars

----------------------------------------------------------------------------
(* Properties of the manager object (checked under ManagerSpec)             *)

\* the last min(4, Len(s)) characters of s, position by position
Suffix4(s) ==
    LET n == IF Len(s) < 4 THEN Len(s) ELSE 4
    IN  [i \in 1..n |-> s[Len(s) - n + i]]

\* k >= 1 written with 4 digits
Padded4(k) ==
    IF k < 10 THEN <<"0", "0", "0", DigitChar[k + 1]>>
    ELSE IF k < 100 THEN <<"0", "0", DigitChar[(k \div 10) + 1], DigitChar[(k % 10) + 1]>>
    ELSE zfill(str(k), 4)

MacAABBCCDDEEFF ==
    <<"A", "A", ":", "B", "B", ":", "C", "C", ":", "D", "D", ":", "E", "E", ":", "F", "F">>

\* C2: the first request for a base hostname returns it unmodified, the k-th
\* (k >= 2) returns base-(k-1), whatever requests for other bases came in
\* between; the registry entry of a base is the number of requests made for
\* it, and a request leaves the entries of the other bases unchanged.
C2_KthRequest ==
    /\ hostname_counters = trace.asked
    /\ trace.op = "generate_unique_hostname" =>
          LET k == trace.asked[trace.base]
          IN  /\ k = 1 => trace.ret = trace.base
              /\ k >= 2 => trace.ret = trace.base \o <<"-">> \o str(k - 1)
              /\ hostname_counters[trace.base] = k
              /\ \A b \in DOMAIN trace.counters_before :
                    b # trace.base => hostname_counters[b] = trace.counters_before[b]

\* C2 witness: the third request for a base, after requests for another base
C2_Witness ==
    /\ trace.op = "generate_unique_hostname"
    /\ trace.asked[trace.base] = 3
    /\ Cardinality(DOMAIN trace.asked) >= 2
    /\ trace.ret = trace.base \o <<"-", "2">>

\* C3: strict precedence serial > MAC > counter: a serial that is non-empty
\* and not 'UNKNOWN' gives 'SN' + its last 4 characters (all of it when it is
\* shorter), whatever the MAC; else a MAC that is non-empty and not 'UNKNOWN'
\* gives 'MC' + its last 4 characters; only with neither is a 'DEV'
\* identifier returned.
C3_Precedence ==
    trace.op = "generate_identifier" =>
        IF ~Lacking(trace.serial)
        THEN trace.ret = <<"S", "N">> \o Suffix4(trace.serial)
        ELSE IF ~Lacking(trace.mac)
        THEN trace.ret = <<"M", "C">> \o Suffix4(trace.mac)
        ELSE SubSeq(trace.ret, 1, 3) = <<"D", "E", "V">>

\* C3 witness: a serial shorter than 4 characters wins over a usable MAC
C3_Witness ==
    /\ trace.op = "generate_identifier"
    /\ ~Lacking(trace.serial) /\ Len(trace.serial) < 4
    /\ ~Lacking(trace.mac)
    /\ trace.ret = <<"S", "N">> \o trace.serial

\* C4: the fallback counter starts at 1 and is incremented only by a fallback
\* call, so it never decreases; the k-th call with neither serial nor MAC
\* returns 'DEV' + k on 4 digits, a call returning an SN or MC identifier
\* leaves the counter unchanged, and the DEV identifiers are pairwise distinct.
C4_FallbackCounter ==
    /\ counter = 1 + trace.fallbacks
    /\ counter >= trace.counter_before
    /\ Cardinality(trace.dev_ids) = trace.fallbacks
    /\ trace.op = "generate_identifier" =>
          IF Lacking(trace.serial) /\ Lacking(trace.mac)
          THEN /\ trace.ret = <<"D", "E", "V">> \o Padded4(trace.fallbacks)
               /\ counter = trace.counter_before + 1
          ELSE counter = trace.counter_before

\* C4 witness: the second fallback call, after a call that returned an SN or
\* MC identifier (3 calls or more, none of them of generate_unique_hostname)
C4_Witness ==
    /\ trace.op = "generate_identifier"
    /\ Lacking(trace.serial) /\ Lacking(trace.mac)
    /\ trace.fallbacks = 2
    /\ trace.calls >= 3
    /\ hostname_counters = EmptyDict
    /\ trace.ret = <<"D", "E", "V", "0", "0", "0", "2">>

\* C10 as stated: serial 'UNKNOWN' and mac 'AA:BB:CC:DD:EE:FF' give 'MCEEFF'
\* and the fallback counter is not consumed.
C10_MacFallback_AsStated ==
    (trace.op = "generate_identifier" /\ trace.serial = UNKNOWN
        /\ trace.mac = MacAABBCCDDEEFF) =>
        /\ trace.ret = <<"M", "C", "E", "E", "F", "F">>
        /\ counter = trace.counter_before

\* C10 amended: serial 'UNKNOWN' and mac 'AA:BB:CC:DD:EE:FF' give 'MCE:FF',
\* 'MC' + the last 4 characters of the MAC string, the colon among them, and
\* the fallback counter is not consumed.
C10_MacFallback ==
    (trace.op = "generate_identifier" /\ trace.serial = UNKNOWN
        /\ trace.mac = MacAABBCCDDEEFF) =>
        /\ trace.ret = <<"M", "C", "E", ":", "F", "F">>
        /\ counter = trace.counter_before

\* C10 witness: the call was made, after a fallback call had moved the counter
C10_Witness ==
    /\ trace.op = "generate_identifier"
    /\ trace.serial = UNKNOWN
    /\ trace.mac = MacAABBCCDDEEFF
    /\ trace.counter_before = 2

----------------------------------------------------------------------------
(* Properties of a run of main (checked under Spec)                         *)

\* the requests of `requests` with the given method
RequestsOf(method) == SelectSeq(requests, LAMBDA q : q.method = method)

\* a response that is a failure: the call raised, the status is not 200, or
\* the body has no 'result' field
Failure(response) ==
    response.status = "exception" \/ response.status # "200" \/ ~response.has_result

\* the place of a method among the calls of one record
Rank(method) ==
    CASE method = "user.login" -> 0
      [] method = "hostgroup.get" -> 1
      [] method = "hostgroup.create" -> 2
      [] method = "host.create" -> 3

\* C1: no two host.create requests of a run carry the same host name (the
\* hostnames generate_unique_hostname returns are pairwise distinct).
C1_UniqueHostnames ==
    \A i, j \in 1..Len(requests) :
        (i < j /\ requests[i].method = "host.create" /\ requests[j].method = "host.create")
            => requests[i].name # requests[j].name

\* the run was aborted before the loop: clean_csv or read_inventory_csv
\* returned None, or there is no token
Aborted ==
    ~clean_csv(raw_csv).ok \/ ~Truthy(auth_token) \/ ~inventory_data.ok

\* C6: when cleaning the input fails or authentication yields no token, the
\* run ends with no record processed and no hostgroup.get, hostgroup.create or
\* host.create request sent; otherwise it ends after handling every cleaned
\* record exactly once, in order, whatever failed, with
\* success_count + failed_count = total_count = the number of cleaned records.
\* (Before the end the run is at a step it can take: in the loop a record is
\* left to handle, and every record handled is counted once.)
C6_ExitBehaviour ==
    /\ pc \in {"clean", "manager", "read", "loop", "done"}
    /\ pc = "loop" => processed < total_count
    /\ pc \in {"clean", "manager", "read"} => processed = 0 /\ total_count = 0
    /\ success_count + failed_count = processed
    /\ pc = "done" =>
          IF Aborted
          THEN /\ processed = 0
               /\ \A i \in 1..Len(requests) : requests[i].method = "user.login"
          ELSE /\ processed = Len(inventory_data.rows)
               /\ total_count = Len(inventory_data.rows)
               /\ total_count = Len(clean_csv(raw_csv).rows)
               /\ success_count + failed_count = total_count
               /\ LET gets == RequestsOf("hostgroup.get")
                  IN  /\ Len(gets) = total_count
                      /\ \A i \in 1..Len(gets) : gets[i].row = i

\* C6 witness: a run over 3 records ended, with failures and a success
C6_Witness ==
    /\ pc = "done"
    /\ ~Aborted
    /\ total_count = 3
    /\ failed_count = 2
    /\ success_count = 1

\* what C7 says of every state
C7_State ==
    /\ \A i, j \in 1..Len(requests) :
          i < j => \/ requests[i].row < requests[j].row
                   \/ /\ requests[i].row = requests[j].row
                      /\ Rank(requests[i].method) < Rank(requests[j].method)
    /\ exchange.row > 0 =>
          /\ exchange.base_hostname = base_hostname_of(
                 inventory_data.rows[exchange.row][COL_MODEL], exchange.identifier)
          /\ exchange.base_hostname \in DOMAIN hostname_counters
          /\ exchange.get # NotSent
          /\ ~Truthy(exchange.group_id) =>
                /\ exchange.host = NotSent
                /\ ~exchange.ret
                /\ \A i \in 1..Len(requests) :
                      requests[i].row = exchange.row => requests[i].method # "host.create"
          /\ exchange.ret <=>
                (exchange.host.status = "200" /\ exchange.host.has_result)

\* what C7 says of every step that handles a record
C7_Step ==
    processed' = processed + 1 =>
        /\ exchange'.row = processed'
        /\ IF exchange'.ret
           THEN success_count' = success_count + 1 /\ failed_count' = failed_count
           ELSE failed_count' = failed_count + 1 /\ success_count' = success_count

\* C7: for each record the steps run in the order identifier, hostname, group,
\* host; without a group id no host.create is sent and the record is counted
\* as failed; a record is counted as a success exactly when its host.create
\* returned a result; no call is made twice for a record, and the calls of a
\* record all come before those of the next.
C7_RecordSteps == []C7_State /\ [][C7_Step]_vars

\* C7 witness: a record failed at group resolution after an earlier success
C7_Witness ==
    /\ exchange.row = 2
    /\ ~Truthy(exchange.group_id)
    /\ exchange.create # NotSent
    /\ success_count = 1
    /\ failed_count = 1

\* C8: for a record just handled, a failure response (the call raised, a
\* status other than 200, or no 'result' field) to hostgroup.get makes
\* get_group_id return no id, one to hostgroup.create makes it return no id,
\* and one to host.create makes create_or_update_host return false.
C8_FailuresFail ==
    exchange.row > 0 =>
        /\ Failure(exchange.get) => exchange.group_id = PyNone
        /\ (exchange.create # NotSent /\ Failure(exchange.create)) =>
              exchange.group_id = PyNone
        /\ (exchange.host # NotSent /\ Failure(exchange.host)) => ~exchange.ret

----------------------------------------------------------------------------
(* Properties of the cleaning stage (checked under CleanSpec)               *)

\* the records read so far, from the cleaned and from the re-cleaned file
Records ==
    { inventory_data.rows[i] : i \in 1..Len(inventory_data.rows) }
    \cup { reread_data.rows[i] : i \in 1..Len(reread_data.rows) }

C9_Idempotent ==
    /\ pc # "rejected again"
    /\ pc = "read again" => recleaned_csv = cleaned_csv
    /\ pc = "cleaned twice" => reread_data = inventory_data

====
